---- MODULE Spec2Model ----
(***************************************************************************)
(* Model of the Tacotron2 Decoder (src/layers/tacotron2.py): the decoder   *)
(* instance's fields, its four entry points (forward, inference,           *)
(* inference_truncated, inference_step), set_r and the tensor reshaping    *)
(* helpers, at the level of tensor shapes and element positions.           *)
(*                                                                         *)
(* A tensor is a record [shape, data] with data in row-major order.        *)
(* Learned layers (prenet, LSTM cells, attention, linear projection,       *)
(* stopnet) are opaque: the prenet is an uninterpreted wrapper, and each   *)
(* decode step draws a seed that labels every value the step produces.     *)
(***************************************************************************)
EXTENDS Integers, Sequences, FiniteSets, TLC

\* ---------------------------------------------------------------- bounds
MaxR == 2          \* reduction factors 1..MaxR (r and r_init)
MaxFrames == 4     \* length of the time axis of the ground truth, 0..MaxFrames
MaxLoop == 2       \* inference iterations explored one by one before FastForward
frame_dim == 2     \* Decoder(frame_dim=...)

\* ------------------------------------------------------ program constants
max_decoder_steps == 1000000
prenet_dim == 256
decoder_rnn_dim == 1024
GateMilli == 700   \* the literal 0.7 of the stop gate, in thousandths

Batches == {1, 2}          \* batch sizes
EncLens == {4}             \* encoder sequence lengths
Seeds == {1, 2}            \* labels of what one decode step produces
Logits == {5, 10}          \* stop-logits, in tenths
SpkDim == 3                \* width of a speaker embedding, when one is given

\* ---------------------------------------------------------------- tensors
RECURSIVE Prod(_)
Prod(s) == IF s = <<>> THEN 1 ELSE Head(s) * Prod(Tail(s))

Numel(t) == Prod(t.shape)

Make2(a, b, f(_, _)) ==
  [shape |-> <<a, b>>,
   data |-> [p \in 1..(a * b) |-> f((p - 1) \div b, (p - 1) % b)]]

Make3(a, b, c, f(_, _, _)) ==
  [shape |-> <<a, b, c>>,
   data |-> [p \in 1..(a * b * c) |->
               f((p - 1) \div (b * c), ((p - 1) \div c) % b, (p - 1) % c)]]

At2(t, i, j) == t.data[i * t.shape[2] + j + 1]

At3(t, i, j, k) == t.data[(i * t.shape[2] + j) * t.shape[3] + k + 1]

Max(a, b) == IF a >= b THEN a ELSE b

Min(a, b) == IF a <= b THEN a ELSE b

\* torch.zeros(1).repeat(a, b)
Zeros2(a, b) == Make2(a, b, LAMBDA i, j : 0)

\* t.unsqueeze(0)
Unsqueeze0(t) == [shape |-> <<1>> \o t.shape, data |-> t.data]

\* t.squeeze(1): drops axis 1 when its size is 1
Squeeze1(t) ==
  IF Len(t.shape) >= 2 /\ t.shape[2] = 1
  THEN [shape |-> <<t.shape[1]>> \o SubSeq(t.shape, 3, Len(t.shape)), data |-> t.data]
  ELSE t

\* t.view(a, b, -1) is defined when a*b > 0 divides the number of elements
ViewOk(t, a, b) == a * b > 0 /\ Numel(t) % (a * b) = 0

View3Last(t, a, b) ==
  [shape |-> <<a, b, Numel(t) \div (a * b)>>, data |-> t.data]

\* t.view(a, -1, c)
View3Mid(t, a, c) ==
  [shape |-> <<a, Numel(t) \div (a * c), c>>, data |-> t.data]

\* t.transpose(0, 1) of a 2-axis or 3-axis tensor
Transpose01(t) ==
  IF Len(t.shape) = 2
  THEN Make2(t.shape[2], t.shape[1], LAMBDA i, j : At2(t, j, i))
  ELSE Make3(t.shape[2], t.shape[1], t.shape[3], LAMBDA i, j, k : At3(t, j, i, k))

\* t.transpose(1, 2) of a 3-axis tensor
Transpose12(t) ==
  Make3(t.shape[1], t.shape[3], t.shape[2], LAMBDA i, j, k : At3(t, i, k, j))

\* torch.cat((x, y), dim=0) is defined when the other axes agree
Cat0Ok(x, y) == Tail(x.shape) = Tail(y.shape)

Cat0(x, y) ==
  [shape |-> <<x.shape[1] + y.shape[1]>> \o Tail(x.shape), data |-> x.data \o y.data]

\* t[:, c0:]
Slice2From(t, c0) ==
  Make2(t.shape[1], Max(t.shape[2] - c0, 0), LAMBDA i, j : At2(t, i, c0 + j))

\* t[:, :, c0:]
Slice3From(t, c0) ==
  Make3(t.shape[1], t.shape[2], Max(t.shape[3] - c0, 0),
        LAMBDA i, j, k : At3(t, i, j, c0 + k))

\* t[:, :c1]
Slice2To(t, c1) ==
  Make2(t.shape[1], Min(t.shape[2], c1), LAMBDA i, j : At2(t, i, j))

\* t[k] of a 3-axis tensor
Index0(t, k) == Make2(t.shape[2], t.shape[3], LAMBDA i, j : At3(t, k, i, j))

RECURSIVE FlatData(_)
FlatData(ts) == IF ts = <<>> THEN <<>> ELSE Head(ts).data \o FlatData(Tail(ts))

\* torch.stack(ts): a new leading axis; raises on an empty list
Stack(ts) == [shape |-> <<Len(ts)>> \o ts[1].shape, data |-> FlatData(ts)]

LastDim(t) == t.shape[Len(t.shape)]

\* the ground truth handed to forward: every element carries its own
\* (nonzero) position, so that any move of data is visible
GroundTruth(b, l, w) == [shape |-> <<b, l, w>>, data |-> [p \in 1..(b * l * w) |-> p]]

None == [none |-> TRUE]

\* ------------------------------------------------------------------ state
VARIABLES
  \* fields of the Decoder instance
  r, r_init, memory_truncated,
  query, attention_rnn_cell_state, decoder_hidden, decoder_cell, context,
  inputs, processed_inputs, mask,
  attention,
  \* the running entry point: its position and its local variables
  mode, pc, inputs_arg, memories_arg, mask_arg, spk_arg, memories, memory,
  outputs, stop_tokens, alignments, n_outputs, t, ret,
  \* what the run has done so far
  fed, first_exceed, ended,
  \* a second caller: how the two callers use Decoder instances, the second
  \* caller's run, and the runs of which a decode step read other values
  \* than it reads when the run has the instance for itself
  setup, other, diverged

fields == <<r, r_init, memory_truncated, query, attention_rnn_cell_state,
            decoder_hidden, decoder_cell, context, inputs, processed_inputs,
            mask, attention>>

step_state == <<query, attention_rnn_cell_state, decoder_hidden, decoder_cell, context>>

locals == <<mode, pc, inputs_arg, memories_arg, mask_arg, spk_arg, memories, memory,
            outputs,
            stop_tokens, alignments, n_outputs, t, ret>>

history == <<fed, first_exceed, ended>>

concurrent == <<setup, other, diverged>>

vars == <<fields, locals, history, concurrent>>

\* the encoder outputs a caller can pass: a batch of b sequences of length t
Inputs == {[b |-> b, t |-> l] : b \in Batches, l \in EncLens}

\* a recurrent state tensor of batch b: zeros (v = 0) or the value written
\* by the decode step with seed v
StateT(b, v) == [b |-> b, v |-> v]

\* ------------------------------------------------------- external layers
\* Prenet(frame_dim, ...): Linear layers on the trailing axis; the input's
\* trailing axis must be frame_dim wide, the output's is prenet_dim wide
PrenetOk(x) == x # None /\ LastDim(x) = frame_dim

Prenet(x) ==
  [shape |-> SubSeq(x.shape, 1, Len(x.shape) - 1) \o <<prenet_dim>>, of |-> x]

\* torch.cat([x, speaker_embeddings], dim=-1)
CatSpk(x) ==
  [shape |-> SubSeq(x.shape, 1, Len(x.shape) - 1) \o <<LastDim(x) + SpkDim>>,
   base |-> x]

\* attention.preprocess_inputs(inputs)
preprocess_inputs(inp) == [processed |-> inp]

\* attention.init_states(inputs): fresh alignment tracking for these inputs,
\* the windowing index included
attn_init_states(a, inp) ==
  [states |-> [fresh |-> TRUE, of |-> inp], win_idx |-> [fresh |-> TRUE]]

\* attention.init_win_idx()
attn_init_win_idx(a) == [a EXCEPT !.win_idx = [fresh |-> TRUE]]

\* one call of the attention: its tracking state and window index move on
attn_call(a) ==
  [states |-> IF a.states = None THEN None ELSE [a.states EXCEPT !.fresh = FALSE],
   win_idx |-> IF a.win_idx = None THEN None ELSE [fresh |-> FALSE]]

\* torch.sigmoid of a tensor, and the value the gate compares
Sigmoid(x) == [sigmoid |-> x]

SigmoidMilli(x) == CASE x = 5 -> 622 [] x = 10 -> 731 [] OTHER -> 500

\* `stop_token > 0.7` used as a condition: defined for one-element tensors
GateDefined(stop) == Numel(stop.sigmoid) = 1

GateExceeded(stop) == SigmoidMilli(stop.sigmoid.data[1]) > GateMilli

\* ------------------------------------------------------- Decoder helpers
get_go_frame(inp) == Zeros2(inp.b, frame_dim * r)

_reshape_memoryOk(m) ==
  m.shape[3] = frame_dim => ViewOk(m, m.shape[1], m.shape[2] \div r)

\* mutant: the frames are never grouped
Mut_reshape_memory_flat(m) == Transpose01(m)

_reshape_memory(m) ==
  Transpose01(IF m.shape[3] = frame_dim
              THEN View3Last(m, m.shape[1], m.shape[2] \div r)
              ELSE m)

\* mutant: the first frame of the group is kept instead of the last
Mut_update_memory_first(m) ==
  IF Len(m.shape) = 2
  THEN Slice2To(m, frame_dim)
  ELSE Make3(m.shape[1], m.shape[2], Min(m.shape[3], frame_dim),
             LAMBDA i, j, k : At3(m, i, j, k))

\* mutant: the slice starts from the constructor's r_init instead of r
Mut_update_memory_r_init(m) ==
  IF Len(m.shape) = 2
  THEN Slice2From(m, frame_dim * (r_init - 1))
  ELSE Slice3From(m, frame_dim * (r_init - 1))

_update_memory(m) ==
  IF Len(m.shape) = 2
  THEN Slice2From(m, frame_dim * (r - 1))
  ELSE Slice3From(m, frame_dim * (r - 1))

\* mutant: the frames are split off by a view alone, without the transpose
Mut_parse_outputs_view(outs, stops, aligns) ==
  [alignments |-> Transpose01(Stack(aligns)),
   stop_tokens |-> Transpose01(Stack(stops)),
   outputs |-> LET x == Transpose01(Stack(outs))
               IN [shape |-> <<x.shape[1], frame_dim,
                               Numel(x) \div (x.shape[1] * frame_dim)>>,
                   data |-> x.data]]

_parse_outputs(outs, stops, aligns) ==
  [alignments |-> Transpose01(Stack(aligns)),
   stop_tokens |-> Transpose01(Stack(stops)),
   outputs |-> Transpose12(View3Mid(Transpose01(Stack(outs)),
                                    Stack(outs).shape[2], frame_dim))]

\* return outputs, alignments, stop_tokens
Returned(o, a, st) == [outputs |-> o, alignments |-> a, stop_tokens |-> st]

\* a tensor of which only the shape is kept
ShapeOnly(s) == [shape |-> s]

\* the shapes _parse_outputs gives n items of the shapes os, ss, as
SwapHead(s) == <<s[2], s[1]>> \o SubSeq(s, 3, Len(s))

_parse_outputs_shapes(n, os, ss, as) ==
  [alignments |-> SwapHead(<<n>> \o as),
   stop_tokens |-> SwapHead(<<n>> \o ss),
   outputs |-> <<os[1], frame_dim, (n * Prod(os)) \div (os[1] * frame_dim)>>]
\* --------------------------------------------------------------- decode
\* linear_projection: Linear(decoder_rnn_dim + input_dim, frame_dim * r_init)
linear_projection(b, s) ==
  Make2(b, frame_dim * r_init, LAMBDA i, j : s * 100 + i * frame_dim * r_init + j + 1)

\* stopnet: Linear(decoder_rnn_dim + frame_dim * r_init, 1)
stopnet_in_features == decoder_rnn_dim + frame_dim * r_init

\* the alignment the attention computes: one weight per encoder position
alignment_of(b, l, s) == Make2(b, l, LAMBDA i, j : s * 1000 + i * l + j + 1)

\* decode(memory) runs when the step state exists, memory is a prenet output
\* (attention_rnn takes prenet_dim + input_dim columns) and the batch sizes
\* of memory, the step state and the encoder outputs agree
decode_ok_for(m, q, c, inp) ==
  /\ q # None /\ c # None /\ inp # None
  /\ m.shape = <<c.b, prenet_dim>>
  /\ inp.b = c.b

decode_ok(m) == decode_ok_for(m, query, context, inputs)

\* what decode(memory) returns, in the order of its return statement:
\* (decoder_output, attention_weights, stop_token)
decode_out(b, l, s, lg) ==
  <<Slice2To(linear_projection(b, s), r * frame_dim),
    alignment_of(b, l, s),
    Make2(b, 1, LAMBDA i, j : lg)>>

\* what decode(memory) writes
decode_state(b, l, s) ==
  /\ query' = StateT(b, s)
  /\ attention_rnn_cell_state' = StateT(b, s)
  /\ context' = StateT(b, s)
  /\ decoder_hidden' = StateT(b, s)
  /\ decoder_cell' = StateT(b, s)
  /\ attention' = attn_call(attention)

\* mutant: the context is not among the tensors that are zeroed
Mut_init_states_stale_context(inp, msk, keep_states) ==
  /\ IF ~keep_states
     THEN /\ query' = StateT(inp.b, 0)
          /\ attention_rnn_cell_state' = StateT(inp.b, 0)
          /\ decoder_hidden' = StateT(inp.b, 0)
          /\ decoder_cell' = StateT(inp.b, 0)
          /\ context' = IF context = None THEN StateT(inp.b, 0) ELSE context
     ELSE UNCHANGED step_state
  /\ inputs' = inp
  /\ processed_inputs' = preprocess_inputs(inp)
  /\ mask' = msk

\* mutant: keep_states is ignored
Mut_init_states_always_reset(inp, msk, keep_states) ==
  /\ query' = StateT(inp.b, 0)
  /\ attention_rnn_cell_state' = StateT(inp.b, 0)
  /\ decoder_hidden' = StateT(inp.b, 0)
  /\ decoder_cell' = StateT(inp.b, 0)
  /\ context' = StateT(inp.b, 0)
  /\ inputs' = inp
  /\ processed_inputs' = preprocess_inputs(inp)
  /\ mask' = msk

\* mutant: recurrent tensors that exist are never zeroed
Mut_init_states_keeps_existing(inp, msk, keep_states) ==
  /\ IF ~keep_states /\ query = None
     THEN /\ query' = StateT(inp.b, 0)
          /\ attention_rnn_cell_state' = StateT(inp.b, 0)
          /\ decoder_hidden' = StateT(inp.b, 0)
          /\ decoder_cell' = StateT(inp.b, 0)
          /\ context' = StateT(inp.b, 0)
     ELSE UNCHANGED step_state
  /\ inputs' = inp
  /\ processed_inputs' = preprocess_inputs(inp)
  /\ mask' = msk

_init_states(inp, msk, keep_states) ==
  /\ IF ~keep_states
     THEN /\ query' = StateT(inp.b, 0)
          /\ attention_rnn_cell_state' = StateT(inp.b, 0)
          /\ decoder_hidden' = StateT(inp.b, 0)
          /\ decoder_cell' = StateT(inp.b, 0)
          /\ context' = StateT(inp.b, 0)
     ELSE UNCHANGED step_state
  /\ inputs' = inp
  /\ processed_inputs' = preprocess_inputs(inp)
  /\ mask' = msk

\* ---------------------------------------------------------------- set_r
\* mutant: the setter also moves the constructor's factor and drops the stream
Mut_set_r_rebuild(new_r) ==
  /\ pc = "idle"
  /\ r' = new_r
  /\ r_init' = new_r
  /\ memory_truncated' = None
  /\ UNCHANGED <<step_state, inputs, processed_inputs,
                 mask, attention, locals, history>>

set_r(new_r) ==
  /\ pc = "idle"
  /\ r' = new_r
  /\ UNCHANGED <<r_init, memory_truncated, step_state, inputs, processed_inputs,
                 mask, attention, locals, history>>

\* a run ends: by a return (how = "exhausted", "gate", "ceiling", "step") or
\* by an exception (how = "raise"); its local variables are gone
EndRun(p, how, result) ==
  /\ pc' = p
  /\ ended' = how
  /\ ret' = result
  /\ memories' = None /\ memory' = None
  /\ outputs' = <<>> /\ stop_tokens' = <<>> /\ alignments' = <<>>

Raise == EndRun("error", "raise", None)

StartRun(m, inp, gt, msk, spk) ==
  /\ pc = "idle"
  /\ mode' = m /\ inputs_arg' = inp /\ memories_arg' = gt
  /\ mask_arg' = msk /\ spk_arg' = spk
  /\ n_outputs' = 0 /\ t' = 0
  /\ fed' = None /\ first_exceed' = -1

\* -------------------------------------------------------------- forward
\* lines 250-261: the teacher inputs are prepared and the state is reset
forward(inp, gt, msk, spk) ==
  /\ StartRun("forward", inp, gt, msk, spk)
  /\ LET go == Unsqueeze0(get_go_frame(inp))
         grouped == _reshape_memory(gt)
         updated == _update_memory(Cat0(go, grouped))
         teacher == IF spk THEN CatSpk(updated) ELSE updated
     IN IF /\ _reshape_memoryOk(gt)
           /\ Cat0Ok(go, grouped)
           /\ PrenetOk(teacher)
        THEN /\ _init_states(inp, msk, FALSE)
             /\ attention' = attn_init_states(attention, inp)
             /\ memories' = Prenet(teacher)
             /\ memory' = go
             /\ outputs' = <<>> /\ stop_tokens' = <<>> /\ alignments' = <<>>
             /\ pc' = "loop" /\ ended' = "" /\ ret' = None
             /\ UNCHANGED <<r, r_init, memory_truncated>>
        ELSE /\ Raise
             /\ UNCHANGED fields

\* mutant: the loop reads the group after the one it should
Mut_teacher_input_next(k) ==
  [shape |-> Tail(memories.shape), of |-> Index0(memories.of, k + 1)]

\* memory = memories[len(outputs)], line 263
teacher_input(k) == [shape |-> Tail(memories.shape), of |-> Index0(memories.of, k)]

\* lines 262-267: one iteration of the loop
forward_iter(s, lg) ==
  /\ mode = "forward" /\ pc = "loop"
  /\ n_outputs < memories.shape[1] - 1
  /\ LET m == teacher_input(n_outputs)
         d == decode_out(inputs.b, inputs.t, s, lg)
     IN IF decode_ok(m)
        THEN /\ decode_state(inputs.b, inputs.t, s)
             /\ memory' = m
             /\ fed' = m
             /\ outputs' = Append(outputs, Squeeze1(d[1]))
             /\ stop_tokens' = Append(stop_tokens, Squeeze1(d[3]))
             /\ alignments' = Append(alignments, d[2])
             /\ n_outputs' = n_outputs + 1
             /\ UNCHANGED <<r, r_init, memory_truncated, inputs, processed_inputs, mask,
                            mode, pc, inputs_arg, memories_arg, mask_arg, spk_arg, memories, t,
                            ret, first_exceed, ended>>
        ELSE /\ Raise
             /\ UNCHANGED <<fields, mode, inputs_arg, memories_arg, mask_arg, spk_arg, n_outputs,
                            t, fed, first_exceed>>

\* lines 262, 269-271: the loop is over, the lists are stacked and returned
forward_return ==
  /\ mode = "forward" /\ pc = "loop"
  /\ ~(n_outputs < memories.shape[1] - 1)
  /\ IF outputs # <<>>
     THEN LET p == _parse_outputs(outputs, stop_tokens, alignments)
          IN /\ pc' = "done" /\ ended' = "exhausted"
             /\ ret' = Returned(p.outputs, p.alignments, p.stop_tokens)
             /\ UNCHANGED <<memories, memory, outputs, stop_tokens, alignments>>
     ELSE Raise
  /\ UNCHANGED <<fields, mode, inputs_arg, memories_arg, mask_arg, spk_arg, n_outputs, t,
                 fed, first_exceed>>
\* ------------------------------------------------------------ inference
\* In the two free-running loops the lists outputs, stop_tokens and
\* alignments are only appended to and measured; the model keeps their
\* length (n_outputs) and their last item.  After MaxLoop iterations, one
\* step of the model stands for a stride of consecutive iterations that
\* all continue, and leads to the last two iterations below the ceiling.
Stride == IF n_outputs = MaxLoop THEN max_decoder_steps - 2 - MaxLoop ELSE 1

FirstExceed(stop) ==
  IF first_exceed = -1 /\ GateDefined(stop) /\ GateExceeded(stop)
  THEN n_outputs
  ELSE first_exceed

\* the shapes of the three returned tensors, from the lists' length and items
ParsedShapes(n, out, stop, align) ==
  LET p == _parse_outputs_shapes(n, out.shape, stop.sigmoid.shape, align.shape)
  IN Returned(ShapeOnly(p.outputs), ShapeOnly(p.alignments), ShapeOnly(p.stop_tokens))

\* mutant: the ceiling test is off by one
Mut_ceiling_late(n) == n = max_decoder_steps + 1

\* the step ceiling, lines 293 and 329
ceiling_reached(n) == n = max_decoder_steps

\* the stop gate of inference, line 291
inference_gate(stop) == GateExceeded(stop) /\ 2 * t > inputs_arg.b

\* mutant: a free-running run forgets the stream of inference_truncated
Mut_inference_drops_stream(inp, spk) ==
  /\ StartRun("inference", inp, None, None, spk)
  /\ memory' = _update_memory(get_go_frame(inp))
  /\ _init_states(inp, None, FALSE)
  /\ attention' = attn_init_states(attention, inp)
  /\ memories' = None
  /\ outputs' = <<>> /\ stop_tokens' = <<>> /\ alignments' = <<>>
  /\ pc' = "loop" /\ ended' = "" /\ ret' = None
  /\ memory_truncated' = None
  /\ UNCHANGED <<r, r_init>>

\* lines 274-280
inference(inp, spk) ==
  /\ StartRun("inference", inp, None, None, spk)
  /\ memory' = _update_memory(get_go_frame(inp))
  /\ _init_states(inp, None, FALSE)
  /\ attention' = attn_init_states(attention, inp)
  /\ memories' = None
  /\ outputs' = <<>> /\ stop_tokens' = <<>> /\ alignments' = <<>>
  /\ pc' = "loop" /\ ended' = "" /\ ret' = None
  /\ UNCHANGED <<r, r_init, memory_truncated>>

\* lines 282-298 (and 300-303 when the loop is left): one iteration
inference_iter(s, lg) ==
  /\ mode = "inference" /\ pc = "loop"
  /\ LET m == IF spk_arg THEN CatSpk(Prenet(memory)) ELSE Prenet(memory)
         d == decode_out(inputs.b, inputs.t, s, lg)
         stop == Sigmoid(d[3])
         out == Squeeze1(d[1])
     IN IF PrenetOk(memory) /\ decode_ok(m)
        THEN /\ decode_state(inputs.b, inputs.t, s)
             /\ fed' = m
             /\ first_exceed' = FirstExceed(stop)
             /\ IF ~GateDefined(stop)
                THEN Raise /\ n_outputs' = n_outputs + 1 /\ t' = t
                ELSE IF inference_gate(stop)
                THEN /\ EndRun("done", "gate", ParsedShapes(n_outputs + 1, out, stop, d[2]))
                     /\ n_outputs' = n_outputs + 1 /\ t' = t
                ELSE IF ceiling_reached(n_outputs + 1)
                THEN /\ EndRun("done", "ceiling", ParsedShapes(n_outputs + 1, out, stop, d[2]))
                     /\ n_outputs' = n_outputs + 1 /\ t' = t
                ELSE /\ memory' = _update_memory(d[1])
                     /\ outputs' = <<out>> /\ stop_tokens' = <<stop>>
                     /\ alignments' = <<d[2]>>
                     /\ n_outputs' = n_outputs + Stride
                     /\ t' = t + Stride
                     /\ UNCHANGED <<pc, ended, ret, memories>>
             /\ UNCHANGED <<r, r_init, memory_truncated, inputs, processed_inputs, mask,
                            mode, inputs_arg, memories_arg, mask_arg, spk_arg>>
        ELSE /\ Raise
             /\ UNCHANGED <<fields, mode, inputs_arg, memories_arg, mask_arg, spk_arg, n_outputs,
                            t, fed, first_exceed>>

\* -------------------------------------------------- inference_truncated
\* lines 309-318
\* mutant: a later call leaves the attention as the previous call left it
Mut_inference_truncated_keeps_attention(inp) ==
  /\ StartRun("inference_truncated", inp, None, None, FALSE)
  /\ IF memory_truncated = None
     THEN /\ memory_truncated' = get_go_frame(inp)
          /\ _init_states(inp, None, FALSE)
          /\ attention' = attn_init_states(attn_init_win_idx(attention), inp)
     ELSE /\ _init_states(inp, None, TRUE)
          /\ UNCHANGED <<memory_truncated, attention>>
  /\ memories' = None /\ memory' = None
  /\ outputs' = <<>> /\ stop_tokens' = <<>> /\ alignments' = <<>>
  /\ pc' = "loop" /\ ended' = "" /\ ret' = None
  /\ UNCHANGED <<r, r_init>>

inference_truncated(inp) ==
  /\ StartRun("inference_truncated", inp, None, None, FALSE)
  /\ IF memory_truncated = None
     THEN /\ memory_truncated' = get_go_frame(inp)
          /\ _init_states(inp, None, FALSE)
     ELSE /\ _init_states(inp, None, TRUE)
          /\ UNCHANGED memory_truncated
  /\ attention' = attn_init_states(attn_init_win_idx(attention), inp)
  /\ memories' = None /\ memory' = None
  /\ outputs' = <<>> /\ stop_tokens' = <<>> /\ alignments' = <<>>
  /\ pc' = "loop" /\ ended' = "" /\ ret' = None
  /\ UNCHANGED <<r, r_init>>

\* mutant: the gate of inference, with its step-count guard
Mut_truncated_gate_guarded(stop) == GateExceeded(stop) /\ 2 * t > inputs_arg.b

\* the stop gate of inference_truncated, line 327
truncated_gate(stop) == GateExceeded(stop)

\* lines 320-334 (and 336-339 when the loop is left): one iteration
inference_truncated_iter(s, lg) ==
  /\ mode = "inference_truncated" /\ pc = "loop"
  /\ LET m == Prenet(memory_truncated)
         d == decode_out(inputs.b, inputs.t, s, lg)
         stop == Sigmoid(d[3])
         out == Squeeze1(d[1])
     IN IF PrenetOk(memory_truncated) /\ decode_ok(m)
        THEN /\ decode_state(inputs.b, inputs.t, s)
             /\ fed' = m
             /\ memory' = m
             /\ first_exceed' = FirstExceed(stop)
             /\ IF ~GateDefined(stop)
                THEN /\ pc' = "error" /\ ended' = "raise" /\ ret' = None
                     /\ outputs' = <<>> /\ stop_tokens' = <<>> /\ alignments' = <<>>
                     /\ n_outputs' = n_outputs + 1 /\ t' = t
                     /\ UNCHANGED memory_truncated
                ELSE IF truncated_gate(stop) \/ ceiling_reached(n_outputs + 1)
                THEN /\ pc' = "done"
                     /\ ended' = IF truncated_gate(stop) THEN "gate" ELSE "ceiling"
                     /\ ret' = ParsedShapes(n_outputs + 1, out, stop, d[2])
                     /\ outputs' = <<>> /\ stop_tokens' = <<>> /\ alignments' = <<>>
                     /\ n_outputs' = n_outputs + 1 /\ t' = t
                     /\ UNCHANGED memory_truncated
                ELSE /\ memory_truncated' = d[1]
                     /\ outputs' = <<out>> /\ stop_tokens' = <<stop>>
                     /\ alignments' = <<d[2]>>
                     /\ n_outputs' = n_outputs + Stride
                     /\ t' = t + Stride
                     /\ UNCHANGED <<pc, ended, ret>>
             /\ UNCHANGED <<r, r_init, inputs, processed_inputs, mask,
                            mode, inputs_arg, memories_arg, mask_arg, spk_arg, memories>>
        ELSE /\ Raise
             /\ UNCHANGED <<fields, mode, inputs_arg, memories_arg, mask_arg, spk_arg, n_outputs,
                            t, fed, first_exceed>>

\* ------------------------------------------------------- inference_step
\* lines 345-353: a single decode step, driven from outside
inference_step(inp, tt, mem, s, lg) ==
  /\ pc = "idle"
  /\ mode' = "inference_step" /\ inputs_arg' = inp /\ memories_arg' = None
  /\ mask_arg' = None /\ spk_arg' = FALSE
  /\ t' = tt /\ first_exceed' = -1
  /\ LET arg == IF tt = 0 THEN get_go_frame(inp) ELSE mem
         m == Prenet(arg)
         q == IF tt = 0 THEN StateT(inp.b, 0) ELSE query
         c == IF tt = 0 THEN StateT(inp.b, 0) ELSE context
         i == IF tt = 0 THEN inp ELSE inputs
         d == decode_out(i.b, i.t, s, lg)
         \* decoder_output, stop_token, alignment = self.decode(memory)
         decoder_output == d[1]
         stop_token == Sigmoid(d[2])
         alignment == d[3]
     IN IF PrenetOk(arg) /\ decode_ok_for(m, q, c, i)
        THEN /\ decode_state(i.b, i.t, s)
             /\ IF tt = 0
                THEN /\ inputs' = inp
                     /\ processed_inputs' = preprocess_inputs(inp)
                     /\ mask' = None
                ELSE UNCHANGED <<inputs, processed_inputs, mask>>
             /\ fed' = m
             /\ n_outputs' = 1
             /\ EndRun("done", "step", [decoder_output |-> decoder_output,
                                       stop_token |-> stop_token,
                                       alignment |-> alignment])
             /\ UNCHANGED <<r, r_init, memory_truncated>>
        ELSE /\ IF tt = 0
                THEN _init_states(inp, None, FALSE)
                ELSE UNCHANGED <<step_state, inputs, processed_inputs, mask>>
             /\ Raise
             /\ n_outputs' = 0 /\ fed' = None
             /\ UNCHANGED <<r, r_init, memory_truncated, attention>>

\* ------------------------------------------------------------ the caller
\* the caller has taken the result (or the exception) of the run that ended
release ==
  /\ pc \in {"done", "error"}
  /\ pc' = "idle" /\ mode' = "none"
  /\ inputs_arg' = None /\ memories_arg' = None /\ mask_arg' = None /\ spk_arg' = FALSE
  /\ memories' = None /\ memory' = None
  /\ outputs' = <<>> /\ stop_tokens' = <<>> /\ alignments' = <<>>
  /\ n_outputs' = 0 /\ t' = 0 /\ ret' = None
  /\ fed' = None /\ first_exceed' = -1 /\ ended' = ""
  /\ UNCHANGED fields

\* ------------------------------------------------------------ the system
\* the second caller when it has not called anything
NoRun == [pc |-> "idle", inputs_arg |-> None, mask_arg |-> None, n_outputs |-> 0,
          groups |-> 0, instance |-> None]

\* Decoder.__init__, lines 100-155, for every initial reduction factor
Init ==
  /\ r_init \in 1..MaxR
  /\ r = r_init
  /\ memory_truncated = None
  /\ query = None /\ attention_rnn_cell_state = None
  /\ decoder_hidden = None /\ decoder_cell = None /\ context = None
  /\ inputs = None /\ processed_inputs = None /\ mask = None
  /\ attention = [states |-> None, win_idx |-> None]
  /\ mode = "none" /\ pc = "idle"
  /\ inputs_arg = None /\ memories_arg = None /\ mask_arg = None /\ spk_arg = FALSE
  /\ memories = None /\ memory = None
  /\ outputs = <<>> /\ stop_tokens = <<>> /\ alignments = <<>>
  /\ n_outputs = 0 /\ t = 0 /\ ret = None
  /\ fed = None /\ first_exceed = -1 /\ ended = ""
  /\ setup = "single" /\ other = NoRun /\ diverged = {}

\* the ground truths a caller can pass to forward for a batch of b: frames
\* one by one (width frame_dim) or already grouped by k (width frame_dim * k)
Memories(b) ==
  {GroundTruth(b, l, frame_dim * k) : l \in 0..MaxFrames, k \in 1..MaxR}

\* the frame a caller of inference_step passes for t > 0
StepMemory(b) == Make2(b, frame_dim, LAMBDA i, j : 900 + i * frame_dim + j + 1)

\* the masks a caller passes to forward
Masks == {[mask |-> TRUE]}

StopOf(s) == IF s = 1 THEN 5 ELSE 10

Next ==
  \/ \E new_r \in 1..MaxR : set_r(new_r) /\ UNCHANGED concurrent
  \/ \E inp \in Inputs, msk \in Masks, spk \in BOOLEAN :
       \E gt \in Memories(inp.b) : forward(inp, gt, msk, spk) /\ UNCHANGED concurrent
  \/ \E s \in Seeds : forward_iter(s, StopOf(s)) /\ UNCHANGED concurrent
  \/ forward_return /\ UNCHANGED concurrent
  \/ \E inp \in Inputs, spk \in BOOLEAN : inference(inp, spk) /\ UNCHANGED concurrent
  \/ \E s \in Seeds, lg \in Logits : inference_iter(s, lg) /\ UNCHANGED concurrent
  \/ \E inp \in Inputs : inference_truncated(inp) /\ UNCHANGED concurrent
  \/ \E s \in Seeds, lg \in Logits :
       inference_truncated_iter(s, lg) /\ UNCHANGED concurrent
  \/ \E inp \in Inputs, tt \in {0, 1}, s \in Seeds :
       \E mem \in {None, StepMemory(inp.b)} :
         inference_step(inp, tt, mem, s, StopOf(s)) /\ UNCHANGED concurrent
  \/ release /\ UNCHANGED concurrent

Spec == Init /\ [][Next]_vars

\* ------------------------------------------------- two callers, two runs
\* Two callers each make one teacher-forced run.  The first caller runs
\* forward on the Decoder above.  The second caller runs forward on the same
\* Decoder, its decode steps interleaved with the first caller's
\* (setup = "interleaved") or its whole run before or after the first
\* caller's (setup = "serialized"), or on a Decoder of its own
\* (setup = "distinct").  A decode step of caller k's run that has made n
\* steps writes the label 10 * k + n + 1.
Setups == {"interleaved", "serialized", "distinct"}

CallerInputs(k) == [b |-> 1, t |-> 3 + k]

StepLabel(k, n) == 10 * k + n + 1

\* the five recurrent tensors as one decode step (or _init_states) leaves them
StepState(b, v) == <<StateT(b, v), StateT(b, v), StateT(b, v), StateT(b, v), StateT(b, v)>>

\* what decode reads of the instance: self.query, self.attention_rnn_cell_state,
\* self.decoder_hidden, self.decoder_cell, self.context, self.inputs, self.mask
DecodeReads == [step |-> step_state, inputs |-> inputs, mask |-> mask]

\* what step n of caller k's run reads when no other run touches its instance
OwnReads(k, n, msk) ==
  [step |-> StepState(1, IF n = 0 THEN 0 ELSE StepLabel(k, n - 1)),
   inputs |-> CallerInputs(k), mask |-> msk]

Diverges(k, seen, own) == IF seen # own THEN diverged \cup {k} ELSE diverged

\* the first caller's run: forward, lines 249-271
caller_forward(gt, msk) ==
  /\ setup = "serialized" => other.pc # "loop"
  /\ forward(CallerInputs(1), gt, msk, FALSE)
  /\ UNCHANGED concurrent

caller_forward_iter ==
  /\ forward_iter(StepLabel(1, n_outputs), StopOf(1))
  /\ diverged' = Diverges(1, DecodeReads, OwnReads(1, n_outputs, mask_arg))
  /\ UNCHANGED <<setup, other>>

caller_forward_return == forward_return /\ UNCHANGED concurrent

\* the second caller's run: forward, lines 250-261, on the shared Decoder or
\* on its own
other_forward(groups, msk) ==
  /\ other.pc = "idle"
  /\ setup = "serialized" => pc # "loop"
  /\ IF setup = "distinct"
     THEN /\ other' = [pc |-> "loop", inputs_arg |-> CallerInputs(2), mask_arg |-> msk,
                       n_outputs |-> 0,
                       groups |-> groups,
                       instance |-> [step |-> StepState(1, 0),
                                     inputs |-> CallerInputs(2), mask |-> msk]]
          /\ UNCHANGED fields
     ELSE /\ _init_states(CallerInputs(2), msk, FALSE)
          /\ attention' = attn_init_states(attention, CallerInputs(2))
          /\ other' = [pc |-> "loop", inputs_arg |-> CallerInputs(2), mask_arg |-> msk,
                       n_outputs |-> 0,
                       groups |-> groups, instance |-> None]
          /\ UNCHANGED <<r, r_init, memory_truncated>>
  /\ UNCHANGED <<locals, history, setup, diverged>>

\* lines 262-267 of the second caller's run: one decode step
other_forward_iter ==
  /\ other.pc = "loop" /\ other.n_outputs < other.groups
  /\ LET s == StepLabel(2, other.n_outputs)
         seen == IF setup = "distinct" THEN other.instance ELSE DecodeReads
     IN /\ diverged' = Diverges(2, seen, OwnReads(2, other.n_outputs, other.mask_arg))
        /\ IF setup = "distinct"
           THEN /\ other' = [other EXCEPT !.n_outputs = @ + 1,
                                          !.instance.step = StepState(1, s)]
                /\ UNCHANGED fields
           ELSE /\ decode_state(inputs.b, inputs.t, s)
                /\ other' = [other EXCEPT !.n_outputs = @ + 1]
                /\ UNCHANGED <<r, r_init, memory_truncated, inputs, processed_inputs, mask>>
  /\ UNCHANGED <<locals, history, setup>>

\* lines 262, 269-271 of the second caller's run
other_forward_return ==
  /\ other.pc = "loop" /\ ~(other.n_outputs < other.groups)
  /\ other' = [other EXCEPT !.pc = "done"]
  /\ UNCHANGED <<fields, locals, history, setup, diverged>>

SharedInit ==
  /\ r_init \in 1..MaxR
  /\ r = r_init
  /\ memory_truncated = None
  /\ query = None /\ attention_rnn_cell_state = None
  /\ decoder_hidden = None /\ decoder_cell = None /\ context = None
  /\ inputs = None /\ processed_inputs = None /\ mask = None
  /\ attention = [states |-> None, win_idx |-> None]
  /\ mode = "none" /\ pc = "idle"
  /\ inputs_arg = None /\ memories_arg = None /\ mask_arg = None /\ spk_arg = FALSE
  /\ memories = None /\ memory = None
  /\ outputs = <<>> /\ stop_tokens = <<>> /\ alignments = <<>>
  /\ n_outputs = 0 /\ t = 0 /\ ret = None
  /\ fed = None /\ first_exceed = -1 /\ ended = ""
  /\ setup \in Setups /\ other = NoRun /\ diverged = {}

SharedNext ==
  \/ \E gt \in Memories(1), msk \in Masks : caller_forward(gt, msk)
  \/ caller_forward_iter
  \/ caller_forward_return
  \/ \E groups \in 1..MaxFrames, msk \in Masks : other_forward(groups, msk)
  \/ other_forward_iter
  \/ other_forward_return

SpecShared == SharedInit /\ [][SharedNext]_vars

\* ================================================================ claims
FreeRunning == {"inference", "inference_truncated"}

\* the number of frames of a ground truth, and ceil(a / b)
Frames(gt) == (gt.shape[2] * gt.shape[3]) \div frame_dim

CeilDiv(a, b) == (a + b - 1) \div b

\* C1: free-running inference leaves its loop through the stop gate only at
\* a step counter t greater than half the encoder sequence length (with an
\* encoder length of 4, only at t > 2)
C1_GateAfterHalfInput ==
  (mode = "inference" /\ pc = "done" /\ ended = "gate") => 2 * t > inputs_arg.t

C2_Ceiling ==
  mode \in FreeRunning =>
    /\ n_outputs <= max_decoder_steps
    /\ pc = "loop" => n_outputs < max_decoder_steps
    /\ pc = "done" => ended \in {"gate", "ceiling"}
    /\ (pc = "done" /\ ended # "gate") => n_outputs = max_decoder_steps

\* C2: inference and inference_truncated terminate: every iteration either
\* leaves the loop or adds to the decode steps, whose number never exceeds
\* max_decoder_steps; no iteration starts once the ceiling is reached, and a
\* run that the stop gate does not end returns after exactly
\* max_decoder_steps decode steps
C2_Terminates ==
  /\ []C2_Ceiling
  /\ [][(mode \in FreeRunning /\ pc = "loop")
          => (pc' # "loop" \/ n_outputs' > n_outputs)]_vars

C2_Witness ==
  /\ mode \in FreeRunning /\ pc = "done" /\ ended = "ceiling"
  /\ n_outputs = max_decoder_steps

\* C3 (as stated): a teacher-forced run on N >= 1 ground-truth frames
\* returns after exactly ceil(N / r) decode steps
C3_CeilSteps ==
  (/\ mode = "forward" /\ pc \in {"done", "error"} /\ ~spk_arg
   /\ memories_arg.shape[3] = frame_dim /\ Frames(memories_arg) >= 1)
  => (pc = "done" /\ n_outputs = CeilDiv(Frames(memories_arg), r))

\* C3 (amended): on N >= 1 ground-truth frames a teacher-forced run executes
\* exactly N / r decode steps when r divides N, and raises before its first
\* decode step when r does not divide N
C3_StepsWhenDivisible ==
  (/\ mode = "forward" /\ pc # "idle" /\ ~spk_arg
   /\ memories_arg.shape[3] = frame_dim /\ Frames(memories_arg) >= 1)
  => IF Frames(memories_arg) % r = 0
     THEN /\ pc # "error"
          /\ n_outputs <= Frames(memories_arg) \div r
          /\ pc = "done" => n_outputs = Frames(memories_arg) \div r
     ELSE pc = "error" /\ n_outputs = 0

C3_Witness ==
  /\ mode = "forward" /\ pc = "done" /\ r = 2
  /\ memories_arg.shape[3] = frame_dim /\ Frames(memories_arg) = 4
  /\ n_outputs = 2

\* the value at column c of ground-truth frame number k * r - 1 (the last
\* frame of group k - 1) of batch element b; zero, the go frame, for k = 0
TeacherFrame(gt, b, k, c) ==
  IF k = 0 THEN 0
  ELSE gt.data[b * gt.shape[2] * gt.shape[3] + (k * r - 1) * frame_dim + c + 1]

\* C4: in a teacher-forced run the input of decode step k is fixed by the
\* ground truth alone, whatever the model produced: the go frame for k = 0,
\* the last frame of ground-truth group k - 1 for k >= 1; the final group
\* is never an input
C4_TeacherForcing ==
  (mode = "forward" /\ pc \in {"loop", "done"} /\ n_outputs >= 1) =>
    /\ fed.shape = <<inputs_arg.b, prenet_dim>>
    /\ fed.of.shape = <<inputs_arg.b, frame_dim>>
    /\ \A b \in 0..(inputs_arg.b - 1), c \in 0..(frame_dim - 1) :
         At2(fed.of, b, c) = TeacherFrame(memories_arg, b, n_outputs - 1, c)
    /\ n_outputs * r <= Frames(memories_arg)

C4_Witness ==
  /\ mode = "forward" /\ pc = "loop" /\ n_outputs = 2 /\ r = 2
  /\ outputs[1].data[1] = 201 /\ outputs[2].data[1] = 101

\* the last frame_dim columns of a 2-axis frame-group
LastFrame(out) ==
  Make2(out.shape[1], frame_dim,
        LAMBDA i, c : At2(out, i, out.shape[2] - frame_dim + c))

\* C5: in free-running inference decode step 0 is fed the prenet of the zero
\* go frame, every later step the prenet of the last frame_dim values of the
\* model's own previous output; there is no ground truth in the run
C5_FeedsOwnOutput ==
  [][(mode = "inference" /\ pc = "loop" /\ n_outputs' # n_outputs) =>
       /\ fed'.shape = <<inputs_arg.b, prenet_dim>>
       /\ fed'.of = memory
       /\ memory = IF n_outputs = 0
                   THEN Zeros2(inputs_arg.b, frame_dim)
                   ELSE LastFrame(outputs[1])
       /\ memories_arg = None /\ memories = None]_vars

C5_Witness ==
  /\ mode = "inference" /\ pc = "loop" /\ n_outputs = 2
  /\ r = 2 /\ r_init = 2
  /\ fed.of.data = <<203, 204>>

\* C6: when the loop of forward or inference is entered, after any earlier
\* runs, the five recurrent tensors are zero, inputs, processed_inputs and
\* mask come from the run's arguments and the attention state is fresh for
\* the run's inputs
C6_ResetAtRunStart ==
  (mode \in {"forward", "inference"} /\ pc = "loop" /\ n_outputs = 0) =>
    /\ query = StateT(inputs_arg.b, 0)
    /\ attention_rnn_cell_state = StateT(inputs_arg.b, 0)
    /\ decoder_hidden = StateT(inputs_arg.b, 0)
    /\ decoder_cell = StateT(inputs_arg.b, 0)
    /\ context = StateT(inputs_arg.b, 0)
    /\ inputs = inputs_arg
    /\ processed_inputs = preprocess_inputs(inputs_arg)
    /\ mask = mask_arg
    /\ attention.states = [fresh |-> TRUE, of |-> inputs_arg]

C6_Witness ==
  /\ mode = "inference" /\ pc = "loop" /\ n_outputs = 0
  /\ memory_truncated # None /\ memory_truncated.data[1] # 0
  /\ inputs_arg.b = 1 /\ memory_truncated.shape[1] = 1

\* C7: a call of inference_truncated zeroes the five recurrent tensors only
\* when memory_truncated is still None (the first call); every later call
\* leaves them as they are; each call installs inputs, processed_inputs and
\* mask
C7_TruncatedKeepsState ==
  [][(pc = "idle" /\ mode' = "inference_truncated") =>
       /\ IF memory_truncated = None
          THEN /\ query' = StateT(inputs_arg'.b, 0)
               /\ attention_rnn_cell_state' = StateT(inputs_arg'.b, 0)
               /\ decoder_hidden' = StateT(inputs_arg'.b, 0)
               /\ decoder_cell' = StateT(inputs_arg'.b, 0)
               /\ context' = StateT(inputs_arg'.b, 0)
          ELSE UNCHANGED <<step_state, memory_truncated>>
       /\ inputs' = inputs_arg'
       /\ processed_inputs' = preprocess_inputs(inputs_arg')
       /\ mask' = None]_vars

C7_Witness ==
  /\ mode = "inference_truncated" /\ pc = "loop" /\ n_outputs = 0
  /\ query # None /\ query.v # 0 /\ context.v # 0

\* C8: inference_truncated returns at the first decode step whose stop
\* sigmoid exceeds 0.7, the very first included, and otherwise at the ceiling
C8_TruncatedGate ==
  mode = "inference_truncated" =>
    /\ pc = "loop" => first_exceed = -1
    /\ pc = "done" =>
         \/ ended = "gate" /\ first_exceed = n_outputs - 1
         \/ ended = "ceiling" /\ first_exceed = -1 /\ n_outputs = max_decoder_steps

C8_Witness ==
  /\ mode = "inference_truncated" /\ pc = "done" /\ ended = "gate"
  /\ n_outputs = 1 /\ first_exceed = 0

\* a frame-group tensor whose every element carries its own position
Labelled2(b, w) == Make2(b, w, LAMBDA i, j : i * w + j + 1)

Labelled3(g, b, w) == Make3(g, b, w, LAMBDA i, j, k : (i * b + j) * w + k + 1)

\* C9: on a frame-group of width frame_dim * r, with 2 or 3 axes,
\* _update_memory returns the last frame_dim entries of the trailing axis
\* and keeps the other axes
C9_UpdateMemoryLastFrame ==
  /\ pc = "idle" =>
       \A b \in Batches, g \in 1..2 :
         LET x2 == Labelled2(b, frame_dim * r)
             x3 == Labelled3(g, b, frame_dim * r)
         IN /\ _update_memory(x2).shape = <<b, frame_dim>>
            /\ \A i \in 0..(b - 1), c \in 0..(frame_dim - 1) :
                 At2(_update_memory(x2), i, c) = At2(x2, i, frame_dim * (r - 1) + c)
            /\ _update_memory(x3).shape = <<g, b, frame_dim>>
            /\ \A k \in 0..(g - 1), i \in 0..(b - 1), c \in 0..(frame_dim - 1) :
                 At3(_update_memory(x3), k, i, c) = At3(x3, k, i, frame_dim * (r - 1) + c)
  /\ (mode = "inference" /\ pc = "loop" /\ n_outputs >= 1
      /\ outputs[1].shape[2] = frame_dim * r) => memory = LastFrame(outputs[1])
  /\ (mode = "forward" /\ pc = "loop") =>
       LET x == Cat0(Unsqueeze0(get_go_frame(inputs_arg)), _reshape_memory(memories_arg))
       IN /\ memories.of.shape = <<x.shape[1], x.shape[2], frame_dim>>
          /\ \A k \in 0..(x.shape[1] - 1), i \in 0..(x.shape[2] - 1),
                c \in 0..(frame_dim - 1) :
               At3(memories.of, k, i, c) = At3(x, k, i, x.shape[3] - frame_dim + c)

C9_Witness ==
  /\ mode = "inference" /\ pc = "loop" /\ n_outputs = 1
  /\ r = 2 /\ r_init = 2
  /\ outputs[1].data = <<101, 102, 103, 104>> /\ memory.data = <<103, 104>>

\* the number of frames one decode step contributes
FramesPerStep == Min(r, r_init)

\* C10 (as stated): whatever entry point calls it, _parse_outputs gives
\* outputs (batch, frame_dim, T * r), alignments (batch, T, encoder_length)
\* and stop values (batch, T), when each step's output is frame_dim * r wide
C10_ParsedShapes ==
  (pc = "done" /\ mode \in {"forward"} \cup FreeRunning /\ r <= r_init) =>
    /\ ret.outputs.shape = <<inputs_arg.b, frame_dim, n_outputs * r>>
    /\ ret.alignments.shape = <<inputs_arg.b, n_outputs, inputs_arg.t>>
    /\ ret.stop_tokens.shape = <<inputs_arg.b, n_outputs>>

\* C10 (amended): _parse_outputs gives outputs (batch, frame_dim, T * r)
\* with element [b, c, g*r + j] equal to step g's output [b, j*frame_dim + c]
\* and alignments (batch, T, encoder_length); the stop values come out as
\* (batch, T) in forward, which stacks (batch) vectors, and as (batch, T, 1)
\* in inference and inference_truncated, which stack (batch, 1) tensors
C10_ParseOutputs ==
  /\ (pc = "done" /\ mode = "forward") =>
       LET B == inputs_arg.b
           T == n_outputs
           q == FramesPerStep
       IN /\ r <= r_init => q = r
          /\ T = Len(outputs)
          /\ \A g \in 1..T : outputs[g].shape = <<B, frame_dim * q>>
          /\ ret.outputs.shape = <<B, frame_dim, T * q>>
          /\ \A b \in 0..(B - 1), c \in 0..(frame_dim - 1), g \in 0..(T - 1),
                j \in 0..(q - 1) :
               At3(ret.outputs, b, c, g * q + j) = At2(outputs[g + 1], b, j * frame_dim + c)
          /\ ret.alignments.shape = <<B, T, inputs_arg.t>>
          /\ \A b \in 0..(B - 1), g \in 0..(T - 1), l \in 0..(inputs_arg.t - 1) :
               At3(ret.alignments, b, g, l) = At2(alignments[g + 1], b, l)
          /\ ret.stop_tokens.shape = <<B, T>>
          /\ \A b \in 0..(B - 1), g \in 0..(T - 1) :
               At2(ret.stop_tokens, b, g) = stop_tokens[g + 1].data[b + 1]
  /\ (pc = "done" /\ mode \in FreeRunning) =>
       /\ ret.outputs.shape = <<inputs_arg.b, frame_dim, n_outputs * FramesPerStep>>
       /\ ret.alignments.shape = <<inputs_arg.b, n_outputs, inputs_arg.t>>
       /\ ret.stop_tokens.shape = <<inputs_arg.b, n_outputs, 1>>

C10_Witness ==
  /\ mode = "forward" /\ pc = "done" /\ inputs_arg.b = 2
  /\ r = 2 /\ r_init = 2 /\ n_outputs = 2
  /\ ret.outputs.shape = <<2, frame_dim, 4>>

\* C11: set_r changes the reduction factor r and nothing else: r_init, the
\* recurrent step state, memory_truncated and every other field stay as they
\* are, and linear_projection and stopnet keep the widths fixed by r_init
C11_SetRChangesOnlyR ==
  /\ [](\A b \in Batches, s \in Seeds :
          /\ linear_projection(b, s).shape = <<b, frame_dim * r_init>>
          /\ stopnet_in_features = decoder_rnn_dim + frame_dim * r_init)
  /\ [][r_init' = r_init]_vars
  /\ [][(pc = "idle" /\ pc' = "idle") =>
          UNCHANGED <<r_init, step_state, memory_truncated, inputs,
                      processed_inputs, mask, attention, locals, history>>]_vars

C11_Witness ==
  /\ pc = "idle" /\ r # r_init
  /\ memory_truncated # None /\ query # None /\ query.v # 0

\* the frame-group the latest decode step of the run returned
LastOutput ==
  IF mode = "inference_step" THEN ret.decoder_output ELSE outputs[Len(outputs)]

StepTaken ==
  \/ mode = "inference_step" /\ pc = "done"
  \/ mode \in {"forward"} \cup FreeRunning /\ pc = "loop" /\ n_outputs >= 1

\* C12: whatever reduction factor set_r installed, the frame-group a decode
\* step returns is exactly frame_dim * r wide
C12_StepWidth ==
  StepTaken => LastOutput.shape = <<inputs.b, frame_dim * r>>

\* the width the steps have in the model: frame_dim * r up to r_init
C12_StepWidthUpToRInit ==
  StepTaken => LastOutput.shape = <<inputs.b, frame_dim * Min(r, r_init)>>

\* the frame-group the decode step with the seed now in query returned
StepOutput == Slice2To(linear_projection(inputs.b, query.v), r * frame_dim)

\* C13: once a decode step of inference_truncated has run, memory_truncated
\* is the output of the latest decode step: inside the loop, and when the
\* call has returned and the next call will read it
C13_TruncatedMemoryIsLastOutput ==
  (mode = "inference_truncated" /\ pc \in {"loop", "done"} /\ n_outputs >= 1)
  => memory_truncated = StepOutput

\* inside the loop memory_truncated does follow the steps
C13_InsideTheLoop ==
  (mode = "inference_truncated" /\ pc = "loop" /\ n_outputs >= 1)
  => memory_truncated = StepOutput

\* the attention state right after attention.init_states(inp), and after
\* the one attention call that follows it
FreshAttention(inp) == attn_init_states(attention, inp)

\* C14: every entry point re-initializes the attention state before its
\* first decode step: forward, inference and inference_truncated enter
\* their loop with an attention state fresh for the run's inputs, and the
\* decode step of inference_step with t = 0 runs on such a fresh state
C14_AttentionResetEverywhere ==
  /\ []((mode \in {"forward"} \cup FreeRunning /\ pc = "loop" /\ n_outputs = 0)
          => attention = FreshAttention(inputs_arg))
  /\ [][(pc = "idle" /\ mode' = "inference_step" /\ t' = 0 /\ pc' = "done")
          => attention' = attn_call(FreshAttention(inputs_arg'))]_vars

\* the three looping entry points do re-initialize it
C14_AttentionResetInLoops ==
  (mode \in {"forward"} \cup FreeRunning /\ pc = "loop" /\ n_outputs = 0)
  => attention = FreshAttention(inputs_arg)

\* C15 (as stated): a call of inference_truncated that is not the first
\* (memory_truncated exists) leaves the attention state as the previous
\* call left it
C15_AttentionKeptAcrossCalls ==
  [][(pc = "idle" /\ mode' = "inference_truncated" /\ memory_truncated # None)
       => attention' = attention]_vars

\* C15 (amended): every call of inference_truncated, the first or not,
\* re-initializes the attention state (window index and alignment tracking)
\* for the inputs of the call; only the five recurrent tensors and
\* memory_truncated are carried over from the previous call
C15_AttentionResetEachCall ==
  [][(pc = "idle" /\ mode' = "inference_truncated") =>
       /\ attention' = FreshAttention(inputs_arg')
       /\ memory_truncated # None => UNCHANGED <<step_state, memory_truncated>>]_vars

C15_Witness ==
  /\ mode = "inference_truncated" /\ pc = "loop" /\ n_outputs = 0
  /\ query # None /\ query.v # 0 /\ memory_truncated.data[1] # 0
  /\ attention.states.fresh /\ attention.win_idx.fresh

\* C16: inference_step runs one decode step and returns (decoder_output,
\* stop_token, alignment) with stop_token the sigmoid of that step's
\* stop-logit, a (batch, 1) tensor, and alignment that step's attention
\* weights, a (batch, encoder_length) tensor
C16_StepReturnsStopAndAlignment ==
  (mode = "inference_step" /\ pc = "done") =>
    LET d == decode_out(inputs.b, inputs.t, query.v, StopOf(query.v))
    IN /\ n_outputs = 1
       /\ ret.decoder_output = d[1]
       /\ ret.stop_token = Sigmoid(d[3])
       /\ ret.stop_token.sigmoid.shape = <<inputs.b, 1>>
       /\ ret.alignment = d[2]
       /\ ret.alignment.shape = <<inputs.b, inputs.t>>

\* the frame-group is the first field, and one step is taken
C16_StepReturnsFrameGroup ==
  (mode = "inference_step" /\ pc = "done") =>
    /\ n_outputs = 1
    /\ ret.decoder_output = StepOutput

\* C17: when the two runs are serialized or each has its own Decoder, every
\* decode step reads the step state, inputs and mask that its own run wrote;
\* a step reads what the other run wrote only when the two runs' steps are
\* interleaved on one Decoder
C17_SharedStepState ==
  /\ setup \in {"serialized", "distinct"} => diverged = {}
  /\ diverged # {} => setup = "interleaved"

\* both runs of an interleaving have read what the other wrote
C17_Witness ==
  /\ setup = "interleaved" /\ diverged = {1, 2}
  /\ pc = "done" /\ other.pc = "done"

\* serialized runs and runs on two Decoders do complete
C17_WitnessSerialized ==
  /\ setup = "serialized" /\ diverged = {}
  /\ pc = "done" /\ n_outputs = 2 /\ other.pc = "done" /\ other.n_outputs = 2

\* the tensor forward hands to the prenet (lines 250-256), from the run's
\* arguments, when its reshaping and concatenation are defined
TeacherDefined ==
  /\ _reshape_memoryOk(memories_arg)
  /\ Cat0Ok(Unsqueeze0(get_go_frame(inputs_arg)), _reshape_memory(memories_arg))

TeacherTensor ==
  LET updated == _update_memory(Cat0(Unsqueeze0(get_go_frame(inputs_arg)),
                                     _reshape_memory(memories_arg)))
  IN IF spk_arg THEN CatSpk(updated) ELSE updated

\* C18: whatever r and with or without speaker embeddings, the tensor an
\* entry point hands to the prenet is frame_dim wide: the teacher tensor of
\* forward, the local memory of inference, memory_truncated in
\* inference_truncated, the go frame of inference_step with t = 0
C18_PrenetWidth ==
  /\ (mode = "forward" /\ pc # "idle" /\ TeacherDefined)
       => LastDim(TeacherTensor) = frame_dim
  /\ (mode = "inference" /\ pc = "loop") => LastDim(memory) = frame_dim
  /\ (mode = "inference_truncated" /\ pc = "loop")
       => LastDim(memory_truncated) = frame_dim
  /\ (mode = "inference_step" /\ pc # "idle" /\ t = 0)
       => LastDim(get_go_frame(inputs_arg)) = frame_dim

\* the cases in which the width is frame_dim: forward without speaker
\* embeddings, inference with r <= r_init, inference_truncated past a first
\* step made with r = 1, and inference_step with r = 1
C18_PrenetWidthHolds ==
  /\ (mode = "forward" /\ pc # "idle" /\ TeacherDefined /\ ~spk_arg)
       => LastDim(TeacherTensor) = frame_dim
  /\ (mode = "inference" /\ pc = "loop" /\ r <= r_init) => LastDim(memory) = frame_dim
  /\ (mode = "inference_truncated" /\ pc = "loop" /\ r = 1 /\ n_outputs >= 1)
       => LastDim(memory_truncated) = frame_dim
  /\ (mode = "inference_step" /\ pc # "idle" /\ t = 0 /\ r = 1)
       => LastDim(get_go_frame(inputs_arg)) = frame_dim

\* each of the other cases is reached
C18_SpeakerForward ==
  ~(mode = "forward" /\ pc = "error" /\ TeacherDefined /\ spk_arg /\ r = 1
    /\ LastDim(TeacherTensor) = frame_dim + SpkDim)

C18_TruncatedGoFrame ==
  ~(mode = "inference_truncated" /\ pc = "error" /\ r = 2 /\ n_outputs = 0
    /\ LastDim(memory_truncated) = frame_dim * 2)

C18_StepGoFrame ==
  ~(mode = "inference_step" /\ pc = "error" /\ t = 0 /\ r = 2)

\* C19: once inference_truncated has been called (memory_truncated exists),
\* nothing but inference_truncated itself changes the five recurrent
\* tensors, so that a later call finds them as the previous call left them,
\* whatever forward, inference, inference_step or set_r did in between
C19_StreamStateSurvives ==
  [][(memory_truncated # None /\ mode' # "inference_truncated")
       => UNCHANGED step_state]_vars

\* set_r and the caller taking a result do leave the stream's state alone
C19_StreamStateSurvivesIdle ==
  [][(memory_truncated # None /\ pc' = "idle") => UNCHANGED step_state]_vars

\* C20: memory_truncated is None until a call of inference_truncated sets
\* it, and no operation sets it back to None; so inference_truncated zeroes
\* the recurrent state only in the one call that finds it None
C20_StreamNeverRestarts ==
  /\ [][memory_truncated # None => memory_truncated' # None]_vars
  /\ [][(memory_truncated = None /\ memory_truncated' # None) =>
          /\ pc = "idle" /\ mode' = "inference_truncated"
          /\ memory_truncated' = Zeros2(inputs_arg'.b, frame_dim * r)]_vars
  /\ [][(pc = "idle" /\ mode' = "inference_truncated" /\ memory_truncated # None)
          => UNCHANGED <<step_state, memory_truncated>>]_vars

C20_Witness ==
  /\ mode = "inference" /\ pc = "done" /\ r # r_init
  /\ memory_truncated # None /\ memory_truncated.data[1] # 0
====
